---- MODULE Spec2Model ----
(***************************************************************************)
(* A model of dimod's ConstrainedQuadraticModel (src/dimod/constrained.py): *)
(* the typed variable registry, the constraint mapping, the discrete-group *)
(* bookkeeping and the objective, with one action per public method.       *)
(*                                                                         *)
(* A Python method that raises keeps every mutation it made before the     *)
(* raise.  Each method is therefore an operator from the model before the  *)
(* call to a record [m, err, ret]: the model when the call returns or      *)
(* raises, the exception ("ok" when none) and the returned label.          *)
(***************************************************************************)
EXTENDS Integers, Sequences, FiniteSets, TLC

VARIABLES
    variables,      \* TypedVariables: the labels, in insertion order
    vartypes,       \* TypedVariables.vartypes: list parallel to variables
    lower_bounds,   \* TypedVariables.lower_bounds: dict label -> bound
    upper_bounds,   \* TypedVariables.upper_bounds: dict label -> bound
    objective,      \* ConstrainedQuadraticModel._objective
    constraints,    \* ConstrainedQuadraticModel._constraints: dict label -> Comparison
    discrete,       \* ConstrainedQuadraticModel.discrete: labels of discrete constraints
    _discrete,      \* ConstrainedQuadraticModel._discrete: variables used in discrete
    shared,         \* labels of the constraints whose lhs is the caller's own object
    result,         \* the last call: its method, its exception and what it returned
    calls,          \* the number of calls made so far
    adj,            \* frustrated_loop: node -> the neighbours still in consideration
    bqm_adj,        \* frustrated_loop: bqm.adj, edge -> accumulated interaction
    good_cycles,    \* frustrated_loop: the cycles accepted
    failed_cycles,  \* frustrated_loop: the cycles that failed
    walk,           \* _random_cycle: the walk so far
    cycle,          \* frustrated_loop: the cycle accepted last
    num_cycles,     \* frustrated_loop: argument
    R,              \* frustrated_loop: argument
    planted_solution, \* frustrated_loop: argument
    fl_pc,          \* frustrated_loop: where the call is
    _terms,         \* BinaryPolynomial._terms: the (term, bias) items, in dict order
    bias_range,     \* BinaryPolynomial.normalize: argument
    poly_pc         \* BinaryPolynomial: the last method called

cqm_vars == <<variables, vartypes, lower_bounds, upper_bounds, objective,
              constraints, discrete, _discrete, shared, result, calls>>
fcl_vars == <<adj, bqm_adj, good_cycles, failed_cycles, walk, cycle,
              num_cycles, R, planted_solution, fl_pc>>
poly_vars == <<_terms, bias_range, poly_pc>>
vars == <<cqm_vars, fcl_vars, poly_vars>>

----------------------------------------------------------------------------
(* Bounds of the model. *)

\* A behaviour makes at most this many calls.
MaxCalls == 3
\* frustrated_loop is asked for at most this many cycles.
MaxCycles == 2
\* frustrated_loop's argument max_failed_cycles.
MaxFailedCycles == 2
\* A polynomial holds at most this many terms.
MaxTerms == 3

----------------------------------------------------------------------------
(* Values. *)

CQM_MAGIC_PREFIX == "DIMODCQM"

\* Python's None for a label or a sense; an optional bound is <<>> (None)
\* or <<b>>.
None == "None"
NoBound == <<>>

\* dimod.vartypes.Vartype members the registry meets.
SPIN == "SPIN"
BINARY == "BINARY"
INTEGER == "INTEGER"
REAL == "REAL"
Vartypes == {SPIN, BINARY, INTEGER, REAL}

\* dimod.sym.Sense members, and Sense(s) for a string s: the member whose
\* value is s, a ValueError (None here) when there is none.
Le == "Sense.Le"
Ge == "Sense.Ge"
Eq == "Sense.Eq"
SenseMembers == {Le, Ge, Eq}
SenseStrings == {"<=", ">=", "==", "!="}
Sense(s) ==
    CASE s = "<=" -> Le
      [] s = ">=" -> Ge
      [] s = "==" -> Eq
      [] OTHER -> None

\* The variable labels the calls draw from, in the order expressions list
\* them.
LabelSeq == <<"x0", "x1">>
Labels == {LabelSeq[i] : i \in 1..Len(LabelSeq)}

Range(s) == {s[i] : i \in 1..Len(s)}

\* A Python dict as a function; d[k] = x and d.setdefault(k, x).
EmptyDict == <<>>
Put(d, k, x) == [y \in DOMAIN d \cup {k} |-> IF y = k THEN x ELSE d[y]]
SetDefault(d, k, x) == IF k \in DOMAIN d THEN d ELSE Put(d, k, x)

----------------------------------------------------------------------------
(* Expressions: BinaryQuadraticModel and QuadraticModel values.            *)
(* kind       "BQM" or "QM"                                                *)
(* vartype    the one vartype of a BQM (None for a QM)                     *)
(* variables  the expression's variables in its own order                  *)
(* decl       QM only: per variable its vartype and the bounds the QM      *)
(*            reports for it (lower_bound(v), upper_bound(v))              *)
(* linear     label -> bias, one entry per variable                        *)
(* quadratic  set of interactions {u, v}                                   *)
(* offset     the constant term                                            *)
(* dtype      the bias dtype                                               *)

BQMOf(vartype, vs, lin, quad, dtype) ==
    [kind |-> "BQM", vartype |-> vartype, variables |-> vs, decl |-> EmptyDict,
     linear |-> lin, quadratic |-> quad, offset |-> 0, dtype |-> dtype]

QMOf(vs, decl, lin, quad) ==
    [kind |-> "QM", vartype |-> None, variables |-> vs, decl |-> decl,
     linear |-> lin, quadratic |-> quad, offset |-> 0, dtype |-> "float64"]

\* BinaryQuadraticModel('BINARY'): the default objective.
EmptyBQM == BQMOf(BINARY, <<>>, EmptyDict, {}, "float64")

\* The vartype a variable has in an expression.
ExprVartype(e, v) == IF e.kind = "BQM" THEN e.vartype ELSE e.decl[v].vartype

----------------------------------------------------------------------------
(* The model as one value, and the outcome of a call. *)

Model ==
    [variables |-> variables, vartypes |-> vartypes,
     lower_bounds |-> lower_bounds, upper_bounds |-> upper_bounds,
     objective |-> objective, constraints |-> constraints,
     discrete |-> discrete, _discrete |-> _discrete, shared |-> shared]

\* ConstrainedQuadraticModel(): the lazily created fields at their first
\* access.
NewModel ==
    [variables |-> <<>>, vartypes |-> <<>>,
     lower_bounds |-> EmptyDict, upper_bounds |-> EmptyDict,
     objective |-> EmptyBQM, constraints |-> EmptyDict,
     discrete |-> {}, _discrete |-> {}, shared |-> {}]

Ok(m, ret) == [m |-> m, err |-> "ok", ret |-> ret]
Raise(m, err) == [m |-> m, err |-> err, ret |-> None]

----------------------------------------------------------------------------
(* TypedVariables *)

\* Variables.count(v) and Variables.index(v)
count(m, v) == Cardinality({i \in 1..Len(m.variables) : m.variables[i] = v})
index(m, v) == CHOOSE i \in 1..Len(m.variables) : m.variables[i] = v

\* TypedVariables.vartype(v), ConstrainedQuadraticModel.vartype(v)
vartype(m, v) == m.vartypes[index(m, v)]

\* _append, an existing INTEGER or REAL label: line 68, then (r is its
\* outcome) line 71.
\* ExistingLower with the recorded bound overwritten instead of compared.
ExistingLowerOverwrites(m, v, lower_bound) ==
    IF lower_bound = NoBound THEN Ok(m, v)
    ELSE Ok([m EXCEPT !.lower_bounds = Put(@, v, lower_bound[1])], v)

ExistingLower(m, v, lower_bound) ==
    IF lower_bound = NoBound THEN Ok(m, v)
    ELSE IF lower_bound[1] # SetDefault(m.lower_bounds, v, lower_bound[1])[v]
    THEN Raise([m EXCEPT !.lower_bounds = SetDefault(@, v, lower_bound[1])],
               "BoundConflict")
    ELSE Ok([m EXCEPT !.lower_bounds = SetDefault(@, v, lower_bound[1])], v)
ExistingUpper(r, v, upper_bound) ==
    IF r.err # "ok" \/ upper_bound = NoBound THEN r
    ELSE IF upper_bound[1] # SetDefault(r.m.upper_bounds, v, upper_bound[1])[v]
    THEN Raise([r.m EXCEPT !.upper_bounds = SetDefault(@, v, upper_bound[1])],
               "BoundConflict")
    ELSE Ok([r.m EXCEPT !.upper_bounds = SetDefault(@, v, upper_bound[1])], v)

\* _append, a new label: lines 75-80.
NewLabel(m, vt, v, lower_bound, upper_bound) ==
    [m EXCEPT !.variables = Append(@, v),
              !.vartypes = Append(@, vt),
              !.lower_bounds = IF lower_bound # NoBound
                               THEN Put(@, v, lower_bound[1]) ELSE @,
              !.upper_bounds = IF upper_bound # NoBound
                               THEN Put(@, v, upper_bound[1]) ELSE @]

\* _append without the vartype comparison of lines 65-66.
_appendUnchecked(m, vt, v, lower_bound, upper_bound) ==
    IF count(m, v) > 0
    THEN IF vt # BINARY /\ vt # SPIN
         THEN ExistingUpper(ExistingLower(m, v, lower_bound), v, upper_bound)
         ELSE Ok(m, v)
    ELSE Ok(NewLabel(m, vt, v, lower_bound, upper_bound), v)

\* TypedVariables._append(vartype, v, lower_bound=, upper_bound=)
_append(m, vt, v, lower_bound, upper_bound) ==
    IF count(m, v) > 0
    THEN IF vt # m.vartypes[index(m, v)]
         THEN Raise(m, "TypeConflict")
         ELSE IF vt # BINARY /\ vt # SPIN
         THEN ExistingUpper(ExistingLower(m, v, lower_bound), v, upper_bound)
         ELSE Ok(m, v)
    ELSE Ok(NewLabel(m, vt, v, lower_bound, upper_bound), v)

----------------------------------------------------------------------------
(* ConstrainedQuadraticModel *)

\* The _append call _add_variables_from makes for variable v of model.
AppendOf(m, model, v) ==
    IF model.kind = "BQM"
    THEN _append(m, model.vartype, v, NoBound, NoBound)
    ELSE _append(m, model.decl[v].vartype, v,
                 <<model.decl[v].lower_bound>>, <<model.decl[v].upper_bound>>)

\* _add_variables_from, the loop over model.variables from position i on,
\* r the outcome so far: the first _append that raises ends it, with the
\* earlier ones done.
RECURSIVE AppendFrom(_, _, _)
AppendFrom(r, model, i) ==
    IF r.err # "ok" \/ i > Len(model.variables)
    THEN r
    ELSE AppendFrom(AppendOf(r.m, model, model.variables[i]), model, i + 1)

\* ConstrainedQuadraticModel._add_variables_from(model)
_add_variables_from(m, model) ==
    IF model.kind \in {"BQM", "QM"}
    THEN AppendFrom(Ok(m, None), model, 1)
    ELSE Raise(m, "TypeError")

\* The label lines 296-298 end with: uuid4().hex[:6], drawn again while it
\* is a key of the constraints.
HexLabels == {"0a1b2c", "3d4e5f"}
\* uuid_label without the loop of lines 297-298.
uuid_label_once(m) == HexLabels
uuid_label(m) == HexLabels \ DOMAIN m.constraints

\* A stored Comparison: Le(qm, rhs), Ge(qm, rhs) or Eq(qm, rhs).
Comparison(lhs, sense, rhs) == [lhs |-> lhs, sense |-> sense, rhs |-> rhs]

\* StoreConstraint without the copy of lines 307-308: the expression passed
\* is stored whatever copy is.
StoreConstraintPassed(r, qm, sense, rhs, label, copy) ==
    IF r.err # "ok" THEN r
    ELSE IF sense \in SenseMembers
    THEN Ok([r.m EXCEPT !.constraints = Put(@, label, Comparison(qm, sense, rhs)),
                        !.shared = @ \cup {label}],
            label)
    ELSE Raise(r.m, "UnexpectedSense")

\* add_constraint_from_model from line 307 on, r the outcome of
\* _add_variables_from: the constraint is stored under the sense's class,
\* its lhs qm.copy() when copy is true and the object passed when it is not.
StoreConstraint(r, qm, sense, rhs, label, copy) ==
    IF r.err # "ok" THEN r
    ELSE IF sense \in SenseMembers
    THEN Ok([r.m EXCEPT !.constraints = Put(@, label, Comparison(qm, sense, rhs)),
                        !.shared = IF copy THEN @ \ {label} ELSE @ \cup {label}],
            label)
    ELSE Raise(r.m, "UnexpectedSense")

\* add_constraint_from_model with the label looked up after the variables
\* are registered.
add_constraint_from_model_late(m, qm, sense, rhs, label, copy, hex) ==
    IF sense \in SenseStrings /\ Sense(sense) = None
    THEN Raise(m, "InvalidSense")
    ELSE IF _add_variables_from(m, qm).err # "ok"
    THEN _add_variables_from(m, qm)
    ELSE IF label # None /\ label \in DOMAIN m.constraints
    THEN Raise(_add_variables_from(m, qm).m, "DuplicateLabel")
    ELSE StoreConstraint(_add_variables_from(m, qm), qm,
                         IF sense \in SenseStrings THEN Sense(sense) ELSE sense,
                         rhs,
                         IF label = None THEN hex ELSE label, copy)

\* ConstrainedQuadraticModel.add_constraint_from_model(qm, sense, rhs, label,
\* copy); hex is the label the uuid loop ends with when label is None.
add_constraint_from_model(m, qm, sense, rhs, label, copy, hex) ==
    IF sense \in SenseStrings /\ Sense(sense) = None
    THEN Raise(m, "InvalidSense")
    ELSE IF label # None /\ label \in DOMAIN m.constraints
    THEN Raise(m, "DuplicateLabel")
    ELSE StoreConstraint(_add_variables_from(m, qm), qm,
                         IF sense \in SenseStrings THEN Sense(sense) ELSE sense,
                         rhs,
                         IF label = None THEN hex ELSE label, copy)

\* ConstrainedQuadraticModel.add_constraint_from_comparison(comp, label, copy);
\* comp.rhs is <<number>>, or <<>> when it is no Number.
add_constraint_from_comparison(m, comp, label, copy, hex) ==
    IF comp.rhs = <<>>
    THEN Raise(m, "TypeError")
    ELSE IF comp.lhs.kind \in {"BQM", "QM"}
    THEN add_constraint_from_model(m, comp.lhs, comp.sense, comp.rhs[1],
                                   label, copy, hex)
    ELSE Raise(m, "UnsupportedComparison")

\* QuadraticModel.add_variable(vartype, v) on the QuadraticModel that
\* add_constraint_from_iterable builds: a new variable gets the vartype's
\* default bounds.
DefaultLower(vt) == IF vt = SPIN THEN -1 ELSE 0
DefaultUpper(vt) == IF vt \in {SPIN, BINARY} THEN 1 ELSE 9
qm_add_variable(qm, vt, v) ==
    IF v \in Range(qm.variables) THEN qm
    ELSE [qm EXCEPT !.variables = Append(@, v),
                    !.decl = Put(@, v, [vartype |-> vt,
                                        lower_bound |-> DefaultLower(vt),
                                        upper_bound |-> DefaultUpper(vt)]),
                    !.linear = Put(@, v, 0)]

\* One pass of add_constraint_from_iterable's loop: the term [vars, bias]
\* added to qm.
AddTerm(m, qm, t, bias) ==
    IF Len(t) = 0
    THEN Ok([qm EXCEPT !.offset = @ + bias], None)
    ELSE IF Len(t) > 2
    THEN Raise(qm, "TermArity")
    ELSE IF \E i \in 1..Len(t) : count(m, t[i]) = 0
    THEN Raise(qm, "UnknownVariable")
    ELSE IF Len(t) = 1
    THEN Ok([qm_add_variable(qm, vartype(m, t[1]), t[1])
                 EXCEPT !.linear[t[1]] = @ + bias], None)
    ELSE Ok([qm_add_variable(qm_add_variable(qm, vartype(m, t[1]), t[1]),
                             vartype(m, t[2]), t[2])
                 EXCEPT !.quadratic = @ \cup {{t[1], t[2]}}], None)

\* The loop of add_constraint_from_iterable over the terms from position i
\* on, b the outcome so far (b.m is the QuadraticModel being built).
RECURSIVE TermsFrom(_, _, _, _)
TermsFrom(m, b, iterable, i) ==
    IF b.err # "ok" \/ i > Len(iterable)
    THEN b
    ELSE TermsFrom(m, AddTerm(m, b.m, iterable[i].vars, iterable[i].bias),
                   iterable, i + 1)

\* AddBuilt with the loop's exception swallowed: the terms added before it
\* make the constraint.
AddBuiltSoFar(m, b, sense, rhs, label, hex) ==
    add_constraint_from_model(m, b.m, sense, rhs, label, FALSE, hex)

\* The outcome r of storing an expression that the method built itself: no
\* caller holds the object.
Owned(r) == IF r.err = "ok" THEN [r EXCEPT !.m.shared = @ \ {r.ret}] ELSE r

\* add_constraint_from_iterable from line 391 on, b the outcome of the loop.
AddBuilt(m, b, sense, rhs, label, hex) ==
    IF b.err # "ok" THEN Raise(m, b.err)
    ELSE Owned(add_constraint_from_model(m, b.m, sense, rhs, label, FALSE, hex))

\* ConstrainedQuadraticModel.add_constraint_from_iterable(iterable, sense,
\* rhs, label)
add_constraint_from_iterable(m, iterable, sense, rhs, label, hex) ==
    AddBuilt(m,
             TermsFrom(m, Ok(QMOf(<<>>, EmptyDict, EmptyDict, {}), None),
                       iterable, 1),
             sense, rhs, label, hex)

\* ConstrainedQuadraticModel.add_constraint(data, ...) as add_discrete and
\* from_file call it: data is a Comparison (sense and rhs are its own) or a
\* model.
add_constraint(m, data, sense, rhs, label, hex) ==
    IF data.kind \in {"BQM", "QM"}
    THEN add_constraint_from_model(m, data, sense, rhs, label, TRUE, hex)
    ELSE IF data.kind = "Comparison"
    THEN add_constraint_from_comparison(m, data, label, TRUE, hex)
    ELSE Raise(m, "TypeError")

\* DiscreteCheckFrom without the test of line 422.
DiscreteCheckUnclaimed(m, vs, i) ==
    IF \E j \in i..Len(vs) : count(m, vs[j]) > 0 /\ vartype(m, vs[j]) # BINARY
    THEN "NotBinary"
    ELSE "ok"

\* The first variable of vs, from position i on, that add_discrete's loop
\* refuses, and why; "ok" when it refuses none.
RECURSIVE DiscreteCheckFrom(_, _, _)
DiscreteCheckFrom(m, vs, i) ==
    IF i > Len(vs) THEN "ok"
    ELSE IF vs[i] \in m._discrete THEN "DiscreteConflict"
    ELSE IF count(m, vs[i]) > 0 /\ vartype(m, vs[i]) # BINARY THEN "NotBinary"
    ELSE DiscreteCheckFrom(m, vs, i + 1)

\* bqm.add_variables_from((v, 1) for v in variables): every occurrence of a
\* variable adds 1 to its linear bias.
RECURSIVE OneHotFrom(_, _, _)
OneHotFrom(bqm, vs, i) ==
    IF i > Len(vs) THEN bqm
    ELSE OneHotFrom(IF vs[i] \in Range(bqm.variables)
                    THEN [bqm EXCEPT !.linear[vs[i]] = @ + 1]
                    ELSE [bqm EXCEPT !.variables = Append(@, vs[i]),
                                     !.linear = Put(@, vs[i], 1)],
                    vs, i + 1)

\* bqm == 1 for the bqm add_discrete builds on an empty BINARY float32 BQM.
OneHot(vs) ==
    [kind |-> "Comparison",
     lhs |-> OneHotFrom(BQMOf(BINARY, <<>>, EmptyDict, {}, "float32"), vs, 1),
     sense |-> Eq, rhs |-> <<1>>]

\* add_discrete from line 432 on, r the outcome of add_constraint.
\* MarkDiscrete with the discrete labels replaced by the new one.
MarkDiscreteOnly(r, vs) ==
    IF r.err # "ok" THEN r
    ELSE Ok([r.m EXCEPT !.discrete = {r.ret},
                        !._discrete = @ \cup Range(vs)], r.ret)

MarkDiscrete(r, vs) ==
    IF r.err # "ok" THEN r
    ELSE Ok([r.m EXCEPT !.discrete = @ \cup {r.ret},
                        !._discrete = @ \cup Range(vs)],
            r.ret)

\* add_discrete without the loop of lines 421-426.
add_discrete_unvalidated(m, vs, label, hex) ==
    IF label # None /\ label \in DOMAIN m.constraints
    THEN Raise(m, "DuplicateLabel")
    ELSE MarkDiscrete(add_constraint(m, OneHot(vs), None, 0, label, hex), vs)

\* ConstrainedQuadraticModel.add_discrete(variables, label)
add_discrete(m, vs, label, hex) ==
    IF label # None /\ label \in DOMAIN m.constraints
    THEN Raise(m, "DuplicateLabel")
    ELSE IF DiscreteCheckFrom(m, vs, 1) # "ok"
    THEN Raise(m, DiscreteCheckFrom(m, vs, 1))
    ELSE MarkDiscrete(add_constraint(m, OneHot(vs), None, 0, label, hex), vs)

\* ConstrainedQuadraticModel.add_variable(v, vartype)
add_variable(m, v, vt) ==
    IF count(m, v) > 0
    THEN IF vt # vartype(m, v) THEN Raise(m, "VartypeMismatch")
         ELSE Ok(m, None)
    ELSE _append(m, vt, v, NoBound, NoBound)

\* StoreObjective with the objective stored whatever the registration did.
StoreObjectiveAlways(r, obj) ==
    IF r.err # "ok" THEN Raise([r.m EXCEPT !.objective = obj], r.err)
    ELSE Ok([r.m EXCEPT !.objective = obj], None)

\* set_objective from line 509 on, r the outcome of _add_variables_from.
StoreObjective(r, obj) ==
    IF r.err # "ok" THEN r ELSE Ok([r.m EXCEPT !.objective = obj], None)

\* ConstrainedQuadraticModel.set_objective(objective)
set_objective(m, obj) == StoreObjective(_add_variables_from(m, obj), obj)

----------------------------------------------------------------------------
(* Serialization: to_file and from_file. *)

\* len(e.linear) + len(e.quadratic), and the number of variables of e with
\* an interaction.
\* BiasCount without len(e.quadratic).
BiasCountLinear(e) == Cardinality(DOMAIN e.linear)
BiasCount(e) == Cardinality(DOMAIN e.linear) + Cardinality(e.quadratic)
QuadraticVariableCount(e) ==
    Cardinality({v \in Range(e.variables) : \E q \in e.quadratic : v \in q})

\* sum(len(const.lhs.linear) + len(const.lhs.quadratic) for const in the
\* constraints labelled in S)
RECURSIVE SumBiases(_, _)
SumBiases(m, S) ==
    IF S = {} THEN 0
    ELSE BiasCount(m.constraints[CHOOSE l \in S : TRUE].lhs)
         + SumBiases(m, S \ {CHOOSE l \in S : TRUE})

\* num_biases without the objective's terms of line 491.
num_biases_constraints(m) == SumBiases(m, DOMAIN m.constraints)

\* ConstrainedQuadraticModel.num_biases()
num_biases(m) == BiasCount(m.objective) + SumBiases(m, DOMAIN m.constraints)

\* ConstrainedQuadraticModel.num_quadratic_variables(), the loop over the
\* constraints labelled in S
RECURSIVE SumQuadraticVariables(_, _)
SumQuadraticVariables(m, S) ==
    IF S = {} THEN 0
    ELSE QuadraticVariableCount(m.constraints[CHOOSE l \in S : TRUE].lhs)
         + SumQuadraticVariables(m, S \ {CHOOSE l \in S : TRUE})
num_quadratic_variables(m) == SumQuadraticVariables(m, DOMAIN m.constraints)

\* The expression codec (model.to_file, load) and the label codec
\* (json.dumps(serialize_variable(label)),
\* deserialize_variable(json.loads(text))).
encode(e) == [fileview |-> e]
load(b) == b.fileview
\* The label codec.  A label is a string; SlashLabel is the one that holds
\* the character "/", and split(label) is label.split("/").
SlashLabel == "a/b"
split(label) == IF label = SlashLabel THEN <<"a", "b">> ELSE <<label>>
\* json.dumps(serialize_variable(label)), as the parts of the text between
\* its "/" characters: the text is the label between two quotes, so the
\* first part opens the JSON string and the last part closes it.
json_label(label) ==
    [i \in 1..Len(split(label)) |->
        [text |-> split(label)[i], open |-> i = 1,
         close |-> i = Len(split(label))]]
\* deserialize_variable(json.loads(text)) for a text without "/": a label
\* when text is a whole JSON string, and None when json.loads raises.
label_of_json(text) == IF text.open /\ text.close THEN text.text ELSE None

\* The value of a Sense member: the text of the sense entry.
SenseValue(s) ==
    CASE s = Le -> "<="
      [] s = Ge -> ">="
      [] s = Eq -> "=="

\* The names of the archive's members: a name is the sequence of its parts
\* between the "/" characters.
ObjectiveName == <<"objective">>
MemberName(lstr, entry) == <<"constraints">> \o lstr \o <<entry>>
\* The constraint label and the entry of the member name n that to_file
\* wrote for model m.
LabelOfName(m, n) ==
    CHOOSE l \in DOMAIN m.constraints : json_label(l) = SubSeq(n, 2, Len(n) - 1)
EntryOfName(n) == n[Len(n)]
Entries == {"lhs", "rhs", "sense", "discrete"}

\* What to_file writes under the member name n.
MemberContent(m, n) ==
    IF n = ObjectiveName THEN encode(m.objective)
    ELSE CASE EntryOfName(n) = "lhs" ->
                  encode(m.constraints[LabelOfName(m, n)].lhs)
           [] EntryOfName(n) = "rhs" -> m.constraints[LabelOfName(m, n)].rhs
           [] EntryOfName(n) = "sense" ->
                  SenseValue(m.constraints[LabelOfName(m, n)].sense)
           [] EntryOfName(n) = "discrete" -> (LabelOfName(m, n) \in m.discrete)

\* ConstrainedQuadraticModel.to_file(): the header and the zip archive, a
\* dict from member name to content.
to_file(m) ==
    [prefix |-> CQM_MAGIC_PREFIX,
     version |-> <<1, 1>>,
     data |-> [num_variables |-> Len(m.variables),
               num_constraints |-> Cardinality(DOMAIN m.constraints),
               num_biases |-> num_biases(m),
               num_quadratic_variables |-> num_quadratic_variables(m)],
     zip |-> [n \in {ObjectiveName} \cup
                    {MemberName(json_label(l), e) :
                         l \in DOMAIN m.constraints, e \in Entries}
              |-> MemberContent(m, n)]]

\* The constraint directories from_file finds: group 1 of the match of
\* "constraints/([^/]+)/" against each member name.
constraint_labels(zf) ==
    {n[2] : n \in {x \in DOMAIN zf : Len(x) >= 3 /\ x[1] = "constraints"}}

\* from_file, lines 484-485, r the outcome of add_constraint.
MarkDecoded(r, disc) ==
    IF r.err = "ok" /\ disc
    THEN Ok([r.m EXCEPT !.discrete = @ \cup {r.ret}], r.ret)
    ELSE r

\* from_file, lines 478-485 for the constraint directory c.
DecodeConstraint(cqm, zf, c) ==
    IF \E e \in Entries : MemberName(<<c>>, e) \notin DOMAIN zf
    THEN Raise(cqm, "KeyError")
    ELSE IF label_of_json(c) = None
    THEN Raise(cqm, "JSONDecodeError")
    ELSE MarkDecoded(add_constraint(cqm, load(zf[MemberName(<<c>>, "lhs")]),
                                    zf[MemberName(<<c>>, "sense")],
                                    zf[MemberName(<<c>>, "rhs")],
                                    label_of_json(c), None),
                     zf[MemberName(<<c>>, "discrete")])

\* from_file's loop over the constraint directories, in the order dirs
\* (the iteration order of the set constraint_labels), from position i on,
\* r the outcome so far.
RECURSIVE DecodeFrom(_, _, _, _)
DecodeFrom(r, zf, dirs, i) ==
    IF r.err # "ok" \/ i > Len(dirs)
    THEN r
    ELSE DecodeFrom(DecodeConstraint(r.m, zf, dirs[i]), zf, dirs, i + 1)

\* from_file from line 465 on: cqm = CQM(), the archive is opened and read.
ReadArchive(fp, dirs) ==
    IF ObjectiveName \notin DOMAIN fp.zip
    THEN Raise(NewModel, "KeyError")
    ELSE DecodeFrom(set_objective(NewModel, load(fp.zip[ObjectiveName])),
                    fp.zip, dirs, 1)

\* The outcome r of from_file with the statement the call got to: "header"
\* (read_header, line 456), "version" (the test of line 458) or "archive"
\* (cqm = CQM() and the ZipFile block, lines 465-487).  Up to "version" no
\* model is made and the archive is not opened; r.m is then the model the
\* call would start from.
Stage(r, at) == [m |-> r.m, err |-> r.err, ret |-> r.ret, at |-> at]

\* from_file with the test of line 458 read as "later than version 2".
from_file_after2(fp, dirs) ==
    IF fp.prefix # CQM_MAGIC_PREFIX
    THEN Stage(Raise(NewModel, "BadHeader"), "header")
    ELSE IF fp.version[1] > 2
    THEN Stage(Raise(NewModel, "VersionUnsupported"), "version")
    ELSE Stage(ReadArchive(fp, dirs), "archive")

\* ConstrainedQuadraticModel.from_file(fp), the constraint directories
\* visited in the order dirs.
from_file(fp, dirs) ==
    IF fp.prefix # CQM_MAGIC_PREFIX
    THEN Stage(Raise(NewModel, "BadHeader"), "header")
    ELSE IF fp.version[1] >= 2
    THEN Stage(Raise(NewModel, "VersionUnsupported"), "version")
    ELSE Stage(ReadArchive(fp, dirs), "archive")

\* The orders a set can be iterated in.
Orders(S) ==
    {s \in [1..Cardinality(S) -> S] : \A x \in S : \E i \in DOMAIN s : s[i] = x}

----------------------------------------------------------------------------
(* The arguments the calls draw from. *)

\* Variable collections handed to add_discrete: the sequences over Labels
\* of length at most 2, repeats included.
VarSeqs ==
    {<<>>} \cup {<<u>> : u \in Labels} \cup {<<u, v>> : u, v \in Labels}

\* The variable lists of the expressions: the prefixes of LabelSeq.
ExprVarSeqs == {SubSeq(LabelSeq, 1, n) : n \in 0..Len(LabelSeq)}

\* The interactions an expression over vs may hold.
QuadChoices(vs) == IF Len(vs) = 2 THEN {{}, {{vs[1], vs[2]}}} ELSE {{}}

\* What a QuadraticModel declares for one variable: its vartype and bounds.
Decl(vt, lb, ub) == [vartype |-> vt, lower_bound |-> lb, upper_bound |-> ub]
QMDecls ==
    {Decl(BINARY, 0, 1), Decl(SPIN, -1, 1), Decl(INTEGER, 0, 2),
     Decl(INTEGER, 0, 3), Decl(REAL, 0, 2), Decl(REAL, 1, 2)}

UnitLinear(vs) == [v \in Range(vs) |-> 1]

BQMs ==
    UNION {{BQMOf(vt, vs, UnitLinear(vs), q, "float64") :
                vt \in {SPIN, BINARY}, q \in QuadChoices(vs)} :
           vs \in ExprVarSeqs}
\* The declarations of the second variable of a two-variable QuadraticModel.
SecondDecls == {Decl(BINARY, 0, 1), Decl(INTEGER, 0, 3)}
QMs ==
    UNION {{QMOf(vs, d, UnitLinear(vs), {}) :
                d \in {f \in [Range(vs) -> QMDecls] :
                           Len(vs) = 2 => f[vs[2]] \in SecondDecls}} :
           vs \in ExprVarSeqs}

\* An argument that is no model at all.
NotAModel ==
    [kind |-> "other", vartype |-> None, variables |-> <<>>, decl |-> EmptyDict,
     linear |-> EmptyDict, quadratic |-> {}, offset |-> 0, dtype |-> None]

\* The objectives set_objective is called with.
Exprs == BQMs \cup QMs \cup {NotAModel}

\* The left-hand sides the constraint-adding calls are given.
ConstraintExprs ==
    {e \in BQMs : Len(e.variables) = 2
                       /\ (e.quadratic # {} \/ e.vartype = BINARY)}
    \cup {QMOf(<<"x0">>, "x0" :> Decl(INTEGER, 0, 3), UnitLinear(<<"x0">>), {}),
          QMOf(LabelSeq, "x0" :> Decl(BINARY, 0, 1) @@ "x1" :> Decl(INTEGER, 0, 2),
               UnitLinear(LabelSeq), {}),
          QMOf(LabelSeq, "x0" :> Decl(REAL, 0, 2) @@ "x1" :> Decl(REAL, 1, 2),
               UnitLinear(LabelSeq), {}),
          NotAModel}

\* Files that are not what to_file() wrote for model m: that file with
\* another version or magic prefix in its header, with one member of the
\* archive or one whole constraint directory missing, or with another
\* objective.
Versions == {<<1, 0>>, <<2, 0>>, <<3, 1>>}
WithVersion(fp, v) == [fp EXCEPT !.version = v]
WithPrefix(fp, prefix) == [fp EXCEPT !.prefix = prefix]
Without(fp, names) ==
    [fp EXCEPT !.zip = [n \in DOMAIN fp.zip \ names |-> fp.zip[n]]]
WithObjective(fp, e) == [fp EXCEPT !.zip[ObjectiveName] = encode(e)]
Directory(fp, c) == {n \in DOMAIN fp.zip : Len(n) >= 3 /\ n[2] = c}
OtherObjective == BQMOf(SPIN, LabelSeq, UnitLinear(LabelSeq), {}, "float64")
OtherFiles(m) ==
    {WithVersion(to_file(m), v) : v \in Versions}
    \cup {WithPrefix(to_file(m), "DIMODBQM")}
    \cup {Without(to_file(m), {n}) : n \in DOMAIN to_file(m).zip}
    \cup {Without(to_file(m), Directory(to_file(m), c)) :
              c \in constraint_labels(to_file(m).zip)}
    \cup {WithObjective(to_file(m), OtherObjective)}

\* Constraint labels a caller passes (None: generate one), and the
\* (sense, rhs) pairs.
ConstraintLabels == {"c0", "0a1b2c"}
LabelArgs == ConstraintLabels \cup {None}
SenseRhsArgs == {<<"<=", 0>>, <<"==", 1>>, <<"!=", 0>>, <<None, 1>>}

\* The comparisons add_constraint_from_comparison is called with.
ComparisonArgs ==
    {[kind |-> "Comparison", lhs |-> e, sense |-> sr[1], rhs |-> sr[2]] :
         e \in {BQMOf(BINARY, <<"x1">>, UnitLinear(<<"x1">>), {}, "float64"),
                BQMOf(SPIN, LabelSeq, UnitLinear(LabelSeq), {}, "float64"),
                NotAModel},
         sr \in {<<Le, <<0>>>>, <<Ge, <<1>>>>, <<Eq, <<>>>>}}

\* The terms add_constraint_from_iterable is called with: sequences of at
\* most 2 terms.
Terms ==
    {[vars |-> vs, bias |-> 1] :
         vs \in {<<>>, <<"x0">>, <<"x0", "x1">>, <<"x0", "x1", "x0">>}}
IterableArgs == {<<>>} \cup {<<t>> : t \in Terms} \cup {<<t, u>> : t, u \in Terms}

----------------------------------------------------------------------------
(* Initial state and actions: one per public method. *)

\* No call of frustrated_loop is under way.
NoLoop ==
    /\ adj = <<>>
    /\ bqm_adj = <<>>
    /\ good_cycles = 0
    /\ failed_cycles = 0
    /\ walk = <<>>
    /\ cycle = <<>>
    /\ num_cycles = 0
    /\ R = 0
    /\ planted_solution = <<>>
    /\ fl_pc = "none"

\* A new ConstrainedQuadraticModel, before any call.
NoModel ==
    /\ variables = NewModel.variables
    /\ vartypes = NewModel.vartypes
    /\ lower_bounds = NewModel.lower_bounds
    /\ upper_bounds = NewModel.upper_bounds
    /\ objective = NewModel.objective
    /\ constraints = NewModel.constraints
    /\ discrete = NewModel.discrete
    /\ _discrete = NewModel._discrete
    /\ shared = NewModel.shared
    /\ result = [op |-> "init", err |-> "ok", ret |-> None]
    /\ calls = 0

\* No BinaryPolynomial is built.
NoPolynomial ==
    /\ _terms = <<>>
    /\ bias_range = 0
    /\ poly_pc = "none"

Init == NoModel /\ NoLoop /\ NoPolynomial

\* The model and the outcome after a call that ended as r.
Return(op, r) ==
    /\ calls' = calls + 1
    /\ variables' = r.m.variables
    /\ vartypes' = r.m.vartypes
    /\ lower_bounds' = r.m.lower_bounds
    /\ upper_bounds' = r.m.upper_bounds
    /\ objective' = r.m.objective
    /\ constraints' = r.m.constraints
    /\ discrete' = r.m.discrete
    /\ _discrete' = r.m._discrete
    /\ shared' = r.m.shared
    /\ UNCHANGED <<fcl_vars, poly_vars>>
    /\ result' = [op |-> op, err |-> r.err, ret |-> r.ret]

\* The uuid draws a call can end with; None when the label is given.
HexFor(label) == IF label = None THEN uuid_label(Model) ELSE {None}

SetObjective ==
    /\ calls < MaxCalls
    /\ \E obj \in Exprs : Return("set_objective", set_objective(Model, obj))

AddVariable ==
    /\ calls < MaxCalls
    /\ \E v \in Labels, vt \in Vartypes :
           Return("add_variable", add_variable(Model, v, vt))

AddConstraintFromModel ==
    /\ calls < MaxCalls
    /\ \E qm \in ConstraintExprs, sr \in SenseRhsArgs,
          label \in LabelArgs \cup {SlashLabel} :
           \E hex \in HexFor(label) :
               Return("add_constraint_from_model",
                      add_constraint_from_model(Model, qm, sr[1], sr[2], label,
                                                TRUE, hex))

AddConstraintFromComparison ==
    /\ calls < MaxCalls
    /\ \E comp \in ComparisonArgs, label \in {"c0", None}, copy \in BOOLEAN :
           \E hex \in HexFor(label) :
               Return("add_constraint_from_comparison",
                      add_constraint_from_comparison(Model, comp, label, copy,
                                                     hex))

AddConstraintFromIterable ==
    /\ calls < MaxCalls
    /\ \E iterable \in IterableArgs, label \in {"c0", None} :
           \E hex \in HexFor(label) :
               Return("add_constraint_from_iterable",
                      add_constraint_from_iterable(Model, iterable, "<=", 0,
                                                   label, hex))

AddDiscrete ==
    /\ calls < MaxCalls
    /\ \E vs \in VarSeqs, label \in LabelArgs :
           \E hex \in HexFor(label) :
               Return("add_discrete", add_discrete(Model, vs, label, hex))

\* to_file() returns the file and leaves the model as it is.
ToFile ==
    /\ calls < MaxCalls
    /\ to_file(Model).prefix = CQM_MAGIC_PREFIX
    /\ Return("to_file", Ok(Model, None))

\* num_biases() returns the count and leaves the model as it is.
NumBiases ==
    /\ calls < MaxCalls
    /\ calls' = calls + 1
    /\ result' = [op |-> "num_biases", err |-> "ok", ret |-> None,
                  num |-> num_biases(Model)]
    /\ UNCHANGED <<variables, vartypes, lower_bounds, upper_bounds, objective,
                   constraints, discrete, _discrete, shared, fcl_vars, poly_vars>>

\* num_quadratic_variables() returns the count and leaves the model as it is.
NumQuadraticVariables ==
    /\ calls < MaxCalls
    /\ calls' = calls + 1
    /\ result' = [op |-> "num_quadratic_variables", err |-> "ok", ret |-> None,
                  num |-> num_quadratic_variables(Model)]
    /\ UNCHANGED <<variables, vartypes, lower_bounds, upper_bounds, objective,
                   constraints, discrete, _discrete, shared, fcl_vars, poly_vars>>

\* from_file(fp) on the file to_file() wrote for the model: the caller holds
\* the decoded model when it returns one, and the model it had when it
\* raises.
\* Decoded with the model under construction handed to the caller when
\* from_file raises.
DecodedSoFar(r) == IF r.err = "ok" THEN Ok(r.m, None) ELSE Raise(r.m, r.err)
Decoded(r) == IF r.err = "ok" THEN Ok(r.m, None) ELSE Raise(Model, r.err)
Read(fp) ==
    \E dirs \in Orders(constraint_labels(fp.zip)) :
        Return("from_file", Decoded(from_file(fp, dirs)))
FromFile == calls < MaxCalls /\ Read(to_file(Model))

\* from_file(fp) on a file that to_file() did not write.
FromOtherFile == calls < MaxCalls /\ \E fp \in OtherFiles(Model) : Read(fp)

Next ==
    \/ SetObjective
    \/ AddVariable
    \/ AddConstraintFromModel
    \/ AddConstraintFromComparison
    \/ AddConstraintFromIterable
    \/ AddDiscrete
    \/ NumBiases
    \/ NumQuadraticVariables
    \/ ToFile
    \/ FromFile
    \/ FromOtherFile

Spec == Init /\ [][Next]_vars

\* The behaviours of one model that is only built, never decoded.
NextBuild ==
    \/ SetObjective
    \/ AddVariable
    \/ AddConstraintFromModel
    \/ AddConstraintFromComparison
    \/ AddConstraintFromIterable
    \/ AddDiscrete
SpecBuild == Init /\ [][NextBuild]_vars

\* The caller changes a bias of an expression it passed to the model: the
\* left-hand side stored under l changes with it when the two are one object
\* (copy=False), and nothing of the model changes when the model holds a copy.
Mutate ==
    /\ calls < MaxCalls
    /\ calls' = calls + 1
    /\ \E l \in DOMAIN constraints :
           /\ constraints[l].lhs.variables # <<>>
           /\ constraints' =
                  IF l \in shared
                  THEN [constraints EXCEPT
                           ![l].lhs.linear[constraints[l].lhs.variables[1]] = -1]
                  ELSE constraints
           /\ result' = [op |-> "mutate", err |-> "ok", ret |-> l]
    /\ UNCHANGED <<variables, vartypes, lower_bounds, upper_bounds, objective,
                   discrete, _discrete, shared, fcl_vars, poly_vars>>

\* The behaviours of one model that is built by a caller who keeps, and
\* changes, the expressions it passed.
NextAlias ==
    \/ SetObjective
    \/ AddVariable
    \/ AddConstraintFromModel
    \/ AddConstraintFromComparison
    \/ AddConstraintFromIterable
    \/ AddDiscrete
    \/ Mutate
SpecAlias == Init /\ [][NextAlias]_vars

----------------------------------------------------------------------------
(* dimod.generators.frustrated_loop *)

Abs(x) == IF x < 0 THEN -x ELSE x

\* The graphs: the complete graph on four nodes, and a triangle with a tail.
Nodes == 0..3
CompleteGraph == {{u, v} : u, v \in Nodes} \ {{u} : u \in Nodes}
TailedTriangle == {{0, 1}, {1, 2}, {0, 2}, {2, 3}}
Graphs == {CompleteGraph, TailedTriangle}
\* The planted solutions: the default, and one with both values.
PlantedSolutions ==
    {[v \in Nodes |-> -1], [v \in Nodes |-> IF v < 2 THEN 1 ELSE -1]}

\* adj as lines 101-110 build it from the edges.
AdjOf(edges) == [v \in Nodes |-> {u \in Nodes : {u, v} \in edges}]

\* frustrated_loop up to the loop of line 115.
InitLoop ==
    /\ NoModel
    /\ NoPolynomial
    /\ \E edges \in Graphs :
           /\ adj = AdjOf(edges)
           /\ bqm_adj = [e \in edges |-> 0]
    /\ good_cycles = 0
    /\ failed_cycles = 0
    /\ walk = <<>>
    /\ cycle = <<>>
    /\ num_cycles \in 1..MaxCycles
    /\ R \in {1, 2}
    /\ planted_solution \in PlantedSolutions
    /\ fl_pc = "loop"

\* The edge of the cycle that ends at position i: (cycle[i - 1], cycle[i]),
\* with Python's cycle[-1] for the first.
EdgeAt(cyc, i) == {cyc[IF i = 1 THEN Len(cyc) ELSE i - 1], cyc[i]}
CycleEdges(cyc) == {EdgeAt(cyc, i) : i \in 1..Len(cyc)}

\* cycle_J of lines 126-134 for the edge at position i: J from the planted
\* solution, negated at position idx.
cycle_J(cyc, idx, i) ==
    (IF i = idx THEN -1 ELSE 1)
    * (-(planted_solution[cyc[IF i = 1 THEN Len(cyc) ELSE i - 1]]
         * planted_solution[cyc[i]]))

\* bqm.add_interactions_from(cycle_J), from position i on.
RECURSIVE add_interactions_from(_, _, _, _)
add_interactions_from(b, cyc, idx, i) ==
    IF i > Len(cyc) THEN b
    ELSE add_interactions_from(
             [b EXCEPT ![EdgeAt(cyc, i)] = @ + cycle_J(cyc, idx, i)],
             cyc, idx, i + 1)

\* The test of line 139 with > for >=.
SaturatedAbove(b, e) == Abs(b[e]) > R
\* The test of line 139 on edge e of the updated bqm b.
Saturated(b, e) == Abs(b[e]) >= R

\* adj after the loop of lines 138-141 over the edges of the cycle.
RemoveSaturated(b, cyc) ==
    [v \in DOMAIN adj |->
        {u \in adj[v] : ~({u, v} \in CycleEdges(cyc) /\ Saturated(b, {u, v}))}]

\* _random_cycle: the neighbours the walk may step to (lines 163-168).
neighbors ==
    IF Len(walk) > 1
    THEN adj[walk[Len(walk)]] \ {walk[Len(walk) - 1]}
    ELSE adj[walk[Len(walk)]]

\* visited[u]: the position of u in the walk.
visited(u) == CHOOSE i \in 1..Len(walk) : walk[i] = u

\* Line 117 and _random_cycle's start (lines 153-160): a node is drawn.
StartWalk ==
    /\ fl_pc = "loop"
    /\ good_cycles < num_cycles
    /\ failed_cycles < MaxFailedCycles
    /\ \E start \in DOMAIN adj : walk' = <<start>>
    /\ fl_pc' = "walk"
    /\ UNCHANGED <<cqm_vars, poly_vars, adj, bqm_adj, good_cycles, failed_cycles,
                   cycle, num_cycles, R, planted_solution>>

\* _random_cycle steps to a neighbour it has not seen (lines 180-182).
WalkOn ==
    /\ fl_pc = "walk"
    /\ \E u \in neighbors :
           /\ u \notin Range(walk)
           /\ walk' = Append(walk, u)
    /\ UNCHANGED <<cqm_vars, poly_vars, adj, bqm_adj, good_cycles, failed_cycles,
                   cycle, num_cycles, R, planted_solution, fl_pc>>

\* _random_cycle walked into a dead end and returns None; the cycle failed
\* (lines 170-172, 120-122).
DeadEnd ==
    /\ fl_pc = "walk"
    /\ neighbors = {}
    /\ failed_cycles' = failed_cycles + 1
    /\ walk' = <<>>
    /\ fl_pc' = "loop"
    /\ UNCHANGED <<cqm_vars, poly_vars, adj, bqm_adj, good_cycles, cycle, num_cycles, R,
                   planted_solution>>

\* _random_cycle returns a cycle that a predicate refuses (lines 120-122).
RefuseCycle ==
    /\ fl_pc = "walk"
    /\ \E u \in neighbors : u \in Range(walk)
    /\ failed_cycles' = failed_cycles + 1
    /\ walk' = <<>>
    /\ fl_pc' = "loop"
    /\ UNCHANGED <<cqm_vars, poly_vars, adj, bqm_adj, good_cycles, cycle, num_cycles, R,
                   planted_solution>>

\* _random_cycle returns the cycle from a node seen before (lines 176-178)
\* and frustrated_loop accepts it: lines 123-141.
AcceptCycle ==
    /\ fl_pc = "walk"
    /\ \E u \in neighbors :
           /\ u \in Range(walk)
           /\ cycle' = SubSeq(walk, visited(u), Len(walk))
           /\ \E idx \in 1..Len(cycle') :
                  bqm_adj' = add_interactions_from(bqm_adj, cycle', idx, 1)
    /\ adj' = RemoveSaturated(bqm_adj', cycle')
    /\ good_cycles' = good_cycles + 1
    /\ walk' = <<>>
    /\ fl_pc' = "loop"
    /\ UNCHANGED <<cqm_vars, poly_vars, failed_cycles, num_cycles, R, planted_solution>>

\* The loop of line 115 ends: RuntimeError when cycles are missing, else the
\* bqm is returned (lines 143-146).
ReturnLoop ==
    /\ fl_pc = "loop"
    /\ ~(good_cycles < num_cycles /\ failed_cycles < MaxFailedCycles)
    /\ fl_pc' = IF good_cycles < num_cycles THEN "RuntimeError" ELSE "returned"
    /\ UNCHANGED <<cqm_vars, poly_vars, adj, bqm_adj, good_cycles, failed_cycles,
                   walk, cycle, num_cycles, R, planted_solution>>

\* The behaviours of one call of frustrated_loop.
NextLoop ==
    \/ StartWalk
    \/ WalkOn
    \/ DeadEnd
    \/ RefuseCycle
    \/ AcceptCycle
    \/ ReturnLoop
SpecLoop == InitLoop /\ [][NextLoop]_vars

----------------------------------------------------------------------------
(* dimod.higherorder.BinaryPolynomial: normalize and scale. A bias is the
   fraction num / den with den > 0. *)

Fraction(n, d) == IF d < 0 THEN [num |-> -n, den |-> -d] ELSE [num |-> n, den |-> d]
Zero == Fraction(0, 1)
Less(x, y) == x.num * y.den < y.num * x.den
Times(x, y) == Fraction(x.num * y.num, x.den * y.den)
Over(x, y) == Fraction(x.num * y.den, x.den * y.num)
Larger(x, y) == IF Less(x, y) THEN y ELSE x

\* The polynomials: up to MaxTerms distinct terms in any order, with biases
\* of both signs.
PolyTerms == {{"a"}, {"b"}, {"a", "b"}, {"a", "b", "c"}}
Biases == {Fraction(-3, 1), Fraction(1, 1), Fraction(2, 1)}
Polynomials ==
    UNION {{p \in [1..n -> [term : PolyTerms, bias : Biases]] :
               \A i, j \in 1..n : i # j => p[i].term # p[j].term}
           : n \in 0..MaxTerms}

\* parse_range(r) for a number r (lines 290-293).
parse_range(r) == <<Fraction(-Abs(r), 1), Fraction(Abs(r), 1)>>

\* The loop of lines 308-320 from item i on: c holds lmin, lmax, pmin, pmax.
RECURSIVE CurrentRanges(_, _, _)
CurrentRanges(items, c, i) ==
    IF i > Len(items) THEN c
    ELSE CurrentRanges(
             items,
             IF Cardinality(items[i].term) = 1
             THEN [c EXCEPT
                      !.lmin = IF Less(items[i].bias, c.lmin) THEN items[i].bias ELSE @,
                      !.lmax = IF Less(c.lmax, items[i].bias) THEN items[i].bias ELSE @]
             ELSE IF Cardinality(items[i].term) > 1
             THEN [c EXCEPT
                      !.pmin = IF Less(items[i].bias, c.lmin) THEN items[i].bias ELSE @,
                      !.pmax = IF Less(c.lmax, items[i].bias) THEN items[i].bias ELSE @]
             ELSE c,
             i + 1)

\* inv_scalar of lines 322-323 for the current ranges c.
inv_scalar(c, lin_range, poly_range) ==
    Larger(Larger(Over(c.lmin, lin_range[1]), Over(c.lmax, lin_range[2])),
           Larger(Over(c.pmin, poly_range[1]), Over(c.pmax, poly_range[2])))

\* BinaryPolynomial.scale(scalar) with no ignored terms.
scale(items, scalar) ==
    [i \in 1..Len(items) |->
        [term |-> items[i].term, bias |-> Times(items[i].bias, scalar)]]

\* normalize from line 325 on.
ScaleBy(items, inv) ==
    IF inv.num # 0 THEN scale(items, Over(Fraction(1, 1), inv)) ELSE items

\* BinaryPolynomial.normalize(bias_range=r) with no poly_range and no ignored
\* terms.
normalize(items, r) ==
    ScaleBy(items,
            inv_scalar(CurrentRanges(items,
                                     [lmin |-> Zero, lmax |-> Zero,
                                      pmin |-> Zero, pmax |-> Zero], 1),
                       parse_range(r), parse_range(r)))

\* BinaryPolynomial(poly, vartype) for a poly without repeated terms.
InitPolynomial ==
    /\ NoModel
    /\ NoLoop
    /\ _terms \in Polynomials
    /\ bias_range \in {1, 2}
    /\ poly_pc = "__init__"

Scale ==
    /\ poly_pc = "__init__"
    /\ \E scalar \in {Fraction(-1, 1), Fraction(2, 1)} :
           _terms' = scale(_terms, scalar)
    /\ poly_pc' = "scale"
    /\ UNCHANGED <<cqm_vars, fcl_vars, bias_range>>

Normalize ==
    /\ poly_pc \in {"__init__", "scale"}
    /\ _terms' = normalize(_terms, bias_range)
    /\ poly_pc' = "normalize"
    /\ UNCHANGED <<cqm_vars, fcl_vars, bias_range>>

\* The behaviours of one polynomial that is scaled, or not, and normalized.
NextPolynomial ==
    \/ Scale
    \/ Normalize
SpecPolynomial == InitPolynomial /\ [][NextPolynomial]_vars

----------------------------------------------------------------------------
(* Properties. *)

Registered(v) == count(Model, v) > 0
BuildOps ==
    {"set_objective", "add_variable", "add_constraint_from_model",
     "add_constraint_from_comparison", "add_constraint_from_iterable",
     "add_discrete"}
ModelUnchanged ==
    UNCHANGED <<variables, vartypes, lower_bounds, upper_bounds, objective,
                constraints, discrete, _discrete>>

\* The variables of the discrete group labelled l, and the variables that
\* belong to some discrete group.
GroupVars(m, l) == Range(m.constraints[l].lhs.variables)
Claimed(m) == UNION {GroupVars(m, l) : l \in m.discrete}
GroupsDisjoint(m) ==
    \A l1, l2 \in m.discrete :
        l1 # l2 => GroupVars(m, l1) \cap GroupVars(m, l2) = {}

\* A call that ended as r failed and left the discrete labels, the claimed
\* variables and the constraints as they were.
GroupsKeptBy(r) ==
    /\ r.err # "ok"
    /\ r.m.discrete = discrete
    /\ r.m._discrete = _discrete
    /\ r.m.constraints = constraints

\* C1: in a model built by any sequence of calls, no variable belongs to two
\* discrete groups, and add_discrete with a variable of an earlier group
\* fails and leaves the discrete labels, the claimed variables and the
\* constraints as they were.
C1_DiscreteDisjoint ==
    /\ GroupsDisjoint(Model)
    /\ \A vs \in VarSeqs, label \in LabelArgs : \A hex \in HexFor(label) :
           Range(vs) \cap Claimed(Model) # {} =>
               GroupsKeptBy(add_discrete(Model, vs, label, hex))

\* C1 witness: two discrete groups exist and a call naming a claimed variable
\* has just failed.
C1_Witness ==
    /\ Cardinality(discrete) = 2
    /\ result.op = "add_discrete"
    /\ result.err = "DiscreteConflict"

\* C2: a call of add_constraint_from_model that raises leaves the registry,
\* the constraints and the discrete groups as they were.
C2_FailedAddChangesNothing ==
    [][(result'.op = "add_constraint_from_model" /\ result'.err # "ok")
           => ModelUnchanged]_vars

\* A call that ended as r failed if it was to fail, and changed nothing if it
\* failed.
AtomicallyBy(r, fails) ==
    /\ fails => r.err # "ok"
    /\ r.err # "ok" => r.m = Model

\* C3: add_discrete fails when its label exists, or one of its variables is
\* claimed or is registered with another vartype than BINARY, whatever the
\* position of that variable; and a call that fails leaves the whole model
\* as it was.
C3_AddDiscreteAtomic ==
    \A vs \in VarSeqs, label \in LabelArgs : \A hex \in HexFor(label) :
        AtomicallyBy(add_discrete(Model, vs, label, hex),
                     \/ (label # None /\ label \in DOMAIN constraints)
                     \/ \E i \in 1..Len(vs) :
                            \/ vs[i] \in _discrete \cup Claimed(Model)
                            \/ /\ Registered(vs[i])
                               /\ vartype(Model, vs[i]) # BINARY)

\* C3 witness: add_discrete has just failed on a variable that is not BINARY,
\* in a model with another variable it could have registered.
C3_Witness ==
    /\ result.op = "add_discrete"
    /\ result.err = "NotBinary"
    /\ \E v \in Labels : ~Registered(v)

\* C4: no variable belongs to two discrete groups, in a model returned by
\* from_file and extended by add_discrete too.
C4_DecodedDiscreteDisjoint ==
    \A l1, l2 \in discrete :
        \A v \in Labels :
            (v \in GroupVars(Model, l1) /\ v \in GroupVars(Model, l2)) => l1 = l2

\* The registry of m keeps, in their positions, the labels and vartypes of
\* the current registry.
RegistryKept(m) ==
    /\ Len(m.variables) >= Len(variables)
    /\ \A i \in 1..Len(variables) :
           m.variables[i] = variables[i] /\ m.vartypes[i] = vartypes[i]
RegistryOf(m) == <<m.variables, m.vartypes, m.lower_bounds, m.upper_bounds>>
\* Expression e holds a registered variable with another vartype.
Conflicts(e) ==
    \E i \in 1..Len(e.variables) :
        /\ Registered(e.variables[i])
        /\ ExprVartype(e, e.variables[i]) # vartype(Model, e.variables[i])

\* A call that ended as r kept the registered labels and their vartypes,
\* and failed if it was to fail.
KeptBy(r, fails) == RegistryKept(r.m) /\ (fails => r.err # "ok")
\* add_variable(v, vt) or _append(vt, v) that ended as r, on a registered
\* label v: nothing changed and it succeeded, or, with another vartype than
\* the label has, it raised err.
Reregistered(r, v, vt, ret, err) ==
    IF vt = vartype(Model, v) THEN r = Ok(Model, ret) ELSE r = Raise(Model, err)
\* _append(vt, v, lb, ub) that ended as r: done again, it changes nothing.
Idempotent(r, vt, v, lb, ub) ==
    r.err = "ok" => _append(r.m, vt, v, lb, ub) = Ok(r.m, v)

\* C5: whatever call is made next, the registered labels keep their
\* vartypes; registering a label with the vartype it has changes nothing,
\* and doing again a registration that succeeded changes nothing;
\* registering a label with another vartype fails, through add_variable,
\* set_objective, add_constraint_from_model and add_discrete alike.
C5_VartypeImmutable ==
    /\ \A v \in Labels, vt \in Vartypes :
           /\ IF Registered(v)
              THEN /\ Reregistered(add_variable(Model, v, vt), v, vt, None,
                                   "VartypeMismatch")
                   /\ Reregistered(_append(Model, vt, v, NoBound, NoBound), v,
                                   vt, v, "TypeConflict")
              ELSE KeptBy(add_variable(Model, v, vt), FALSE)
           /\ \A d \in QMDecls :
                  d.vartype = vt =>
                      Idempotent(_append(Model, vt, v, <<d.lower_bound>>,
                                         <<d.upper_bound>>),
                                 vt, v, <<d.lower_bound>>, <<d.upper_bound>>)
    /\ \A e \in BQMs :
           KeptBy(set_objective(Model, e), Conflicts(e))
    /\ \A e \in ConstraintExprs : \A hex \in HexFor(None) :
           KeptBy(add_constraint_from_model(Model, e, "<=", 0, None, TRUE, hex),
                  Conflicts(e))
    /\ \A vs \in VarSeqs : \A hex \in HexFor(None) :
           KeptBy(add_discrete(Model, vs, None, hex),
                  \E i \in 1..Len(vs) :
                      Registered(vs[i]) /\ vartype(Model, vs[i]) # BINARY)

\* C5 witness: two labels are registered and a call that gave one of them
\* another vartype has just failed.
C5_Witness ==
    /\ Len(variables) = 2
    /\ result.err \in {"TypeConflict", "VartypeMismatch"}

\* The bounds _append is called with.
BoundArgs == {NoBound} \cup {<<b>> : b \in 0..3}
LowerDiffers(v, lb) ==
    lb # NoBound /\ v \in DOMAIN lower_bounds /\ lower_bounds[v] # lb[1]
UpperDiffers(v, ub) ==
    ub # NoBound /\ v \in DOMAIN upper_bounds /\ upper_bounds[v] # ub[1]

C7_NoBoundOnSpinBinary ==
    \A i \in 1..Len(variables) :
        vartypes[i] \in {SPIN, BINARY} =>
            variables[i] \notin (DOMAIN lower_bounds \cup DOMAIN upper_bounds)

\* C8: every variable of the objective and of the left-hand side of every
\* constraint is registered, with the vartype it has in that expression.
C8_ExpressionsRegistered ==
    \A e \in {objective} \cup {constraints[l].lhs : l \in DOMAIN constraints} :
        \A i \in 1..Len(e.variables) :
            /\ Registered(e.variables[i])
            /\ vartype(Model, e.variables[i]) = ExprVartype(e, e.variables[i])

\* C8 witness: the objective and a constraint hold variables, and a call has
\* just failed on a vartype.
C8_Witness ==
    /\ objective.variables # <<>>
    /\ \E l \in DOMAIN constraints : constraints[l].lhs.variables # <<>>
    /\ result.err = "TypeConflict"

\* C9 as stated: add_constraint_from_model with a label that exists fails
\* with the duplicate-label error and changes nothing.
C9_DuplicateLabelError ==
    \A label \in ConstraintLabels \cap DOMAIN constraints :
        \A qm \in ConstraintExprs, sr \in SenseRhsArgs :
            add_constraint_from_model(Model, qm, sr[1], sr[2], label, TRUE, None)
                = Raise(Model, "DuplicateLabel")

\* C9: add_constraint_from_model with a label that exists fails and changes
\* nothing; the error is the duplicate-label error unless the sense is a
\* string that names no Sense, which is reported first.
C9_DuplicateLabelFails ==
    \A label \in ConstraintLabels \cap DOMAIN constraints :
        \A qm \in ConstraintExprs, sr \in SenseRhsArgs :
            add_constraint_from_model(Model, qm, sr[1], sr[2], label, TRUE, None)
                = Raise(Model, IF sr[1] \in SenseStrings /\ Sense(sr[1]) = None
                               THEN "InvalidSense" ELSE "DuplicateLabel")

\* C9 witness: add_constraint_from_model has just failed on its label, with
\* a variable of its expression still unregistered.
C9_Witness ==
    /\ result.op = "add_constraint_from_model"
    /\ result.err = "DuplicateLabel"
    /\ ~Registered("x1")

\* A call that ended as r, if it succeeded, stored one constraint more, under
\* a label that was no key, and left the stored ones as they were.
AddedBy(r) ==
    r.err = "ok" =>
        /\ r.ret \notin DOMAIN constraints
        /\ Cardinality(DOMAIN r.m.constraints) = Cardinality(DOMAIN constraints) + 1
        /\ \A l \in DOMAIN constraints : r.m.constraints[l] = constraints[l]

\* C10: a label generated for a constraint added without one is no key of
\* the constraints, so the add stores one constraint more and leaves every
\* stored constraint as it was.
C10_GeneratedLabelFresh ==
    /\ \A qm \in ConstraintExprs, sr \in SenseRhsArgs : \A hex \in uuid_label(Model) :
           AddedBy(add_constraint_from_model(Model, qm, sr[1], sr[2], None,
                                             TRUE, hex))
    /\ \A vs \in VarSeqs : \A hex \in uuid_label(Model) :
           AddedBy(add_discrete(Model, vs, None, hex))
    /\ (result.err = "ok" /\ result.op \in BuildOps \ {"set_objective", "add_variable"}) =>
           result.ret \in DOMAIN constraints

\* C10 witness: a label has just been generated in a model that already had
\* a constraint under a label of the generated form.
C10_Witness ==
    /\ result.err = "ok"
    /\ result.ret = "3d4e5f"
    /\ "0a1b2c" \in DOMAIN constraints

\* The outcomes of from_file(to_file()) on the model, one for each order the
\* constraint directories can be visited in.
RoundTrips ==
    {from_file(to_file(Model), dirs) :
         dirs \in Orders(constraint_labels(to_file(Model).zip))}
\* The registered labels with their vartypes.
TypedLabels(m) == {<<m.variables[i], m.vartypes[i]>> : i \in 1..Len(m.variables)}

\* C11: from_file(to_file()) returns a model with the objective, the
\* constraints (label, sense, rhs and left-hand side) and the discrete labels
\* of the model written.
C11_RoundTripExpressions ==
    \A r \in RoundTrips :
        /\ r.err = "ok"
        /\ r.m.objective = objective
        /\ r.m.constraints = constraints
        /\ r.m.discrete = discrete

\* C12: from_file(to_file()) returns a model with the registered variables,
\* vartypes and bounds of the model written.
C12_RoundTripRegistry ==
    \A r \in RoundTrips :
        /\ r.err = "ok"
        /\ TypedLabels(r.m) = TypedLabels(Model)
        /\ r.m.lower_bounds = lower_bounds
        /\ r.m.upper_bounds = upper_bounds

\* C13: from_file finds one constraint directory for each constraint that
\* to_file wrote, and the labels it recovers from the directory names are
\* the labels of the constraints.
C13_LabelsRoundTrip ==
    /\ Cardinality(constraint_labels(to_file(Model).zip))
           = Cardinality(DOMAIN constraints)
    /\ {label_of_json(c) : c \in constraint_labels(to_file(Model).zip)}
           = DOMAIN constraints

\* The visiting orders of the directories of the file to_file() writes.
DirOrders == Orders(constraint_labels(to_file(Model).zip))

\* from_file on a file with version v in its header ended as r: at the
\* version test with the version error when the major version is 2 or more,
\* and past it otherwise.
GatedBy(r, v) ==
    IF v[1] >= 2
    THEN r = Stage(Raise(NewModel, "VersionUnsupported"), "version")
    ELSE v \in {<<1, 0>>, <<1, 1>>} /\ r.at = "archive"
                                    /\ r.err # "VersionUnsupported"

\* The version gate on the file fp, its header holding each version in turn.
GateOf(fp) ==
    \A v \in Versions \cup {fp.version} :
        GatedBy(from_file(WithVersion(fp, v),
                          CHOOSE dirs \in Orders(constraint_labels(fp.zip)) : TRUE),
                v)

\* C14: from_file on a file whose header holds a major version of 2 or more
\* raises the version error at the version test, before a model is made and
\* the archive is opened; with version 1.0 or 1.1 the call goes on to the
\* archive.
C14_VersionGate == GateOf(to_file(Model))

\* C14 witness: from_file has just refused a file for its version, in a
\* model that holds a constraint.
C14_Witness ==
    /\ result.op = "from_file"
    /\ result.err = "VersionUnsupported"
    /\ DOMAIN constraints # {}

\* C15: from_file on a file without the member "objective" returns a model
\* with the empty objective and every constraint of the file.
C15_ObjectiveOptional ==
    \A dirs \in DirOrders :
        /\ from_file(Without(to_file(Model), {ObjectiveName}), dirs).err = "ok"
        /\ from_file(Without(to_file(Model), {ObjectiveName}), dirs).m.objective
               = EmptyBQM
        /\ Cardinality(DOMAIN from_file(Without(to_file(Model), {ObjectiveName}),
                                        dirs).m.constraints)
               = Cardinality(constraint_labels(to_file(Model).zip))

\* C16: a from_file call that raises leaves the caller with the model it
\* had, unchanged, and with no other model.
C16_DecodeFailsAtomically ==
    [][(result'.op = "from_file" /\ result'.err # "ok")
           => (ModelUnchanged /\ result'.ret = None)]_vars

\* C16 witness: from_file has just failed on the archive after it decoded
\* the objective, in a model that holds that objective.
C16_Witness ==
    /\ result.op = "from_file"
    /\ result.err \in {"KeyError", "TypeConflict"}
    /\ objective.variables # <<>>
    /\ DOMAIN constraints # {}

\* The linear and the quadratic terms of the left-hand sides of the
\* constraints, each with the label of its constraint.
LinearTerms ==
    UNION {{<<l, v>> : v \in DOMAIN constraints[l].lhs.linear} : l \in DOMAIN constraints}
QuadraticTerms ==
    UNION {{<<l, q>> : q \in constraints[l].lhs.quadratic} : l \in DOMAIN constraints}
TermCount ==
    Cardinality(DOMAIN objective.linear) + Cardinality(objective.quadratic)
    + Cardinality(LinearTerms) + Cardinality(QuadraticTerms)

\* C17: num_biases() returns the number of linear and quadratic terms of the
\* objective and of the left-hand sides of all constraints, and the call
\* leaves the registry, the constraints and the discrete groups as they are.
C17_NumBiases ==
    [][/\ num_biases(Model) = TermCount
       /\ result'.op = "num_biases" => (ModelUnchanged /\ result'.num = TermCount)
      ]_vars

\* C17 witness: num_biases() has just returned in a model whose objective
\* and whose constraint hold linear and quadratic terms.
C17_Witness ==
    /\ result.op = "num_biases"
    /\ objective.quadratic # {}
    /\ \E l \in DOMAIN constraints : constraints[l].lhs.quadratic # {}

\* The model of the example: the objective x0 + x1 over BINARY variables and
\* the one constraint x0 + x1 == 1 under the label "c0".
ExampleModel ==
    /\ objective = BQMOf(BINARY, LabelSeq, UnitLinear(LabelSeq), {}, "float64")
    /\ DOMAIN constraints = {"c0"}
    /\ constraints["c0"]
           = Comparison(BQMOf(BINARY, LabelSeq, UnitLinear(LabelSeq), {}, "float64"),
                        Eq, 1)

\* C18 as stated: num_biases() returns 3 for the model of the example.
C18_ExampleCountsThree ==
    ExampleModel =>
        /\ num_biases(Model) = 3
        /\ result.op = "num_biases" => result.num = 3

\* C18: num_biases() returns 4 for the model of the example, 2 for the
\* objective and 2 for the constraint.
C18_ExampleCountsFour ==
    ExampleModel =>
        /\ num_biases(Model) = 4
        /\ result.op = "num_biases" => result.num = 4

\* C18 witness: num_biases() has just returned for the model of the example.
C18_Witness == ExampleModel /\ result.op = "num_biases"

\* add_constraint_from_iterable(iterable) ended as r: it failed and changed
\* nothing when a term holds more than two variables or a variable that is
\* not registered, and when it succeeded the variables of the stored
\* left-hand side have the vartypes of the registry.
TermsCheckedBy(r, iterable) ==
    /\ (\E i \in 1..Len(iterable) :
            \/ Len(iterable[i].vars) > 2
            \/ \E j \in 1..Len(iterable[i].vars) :
                   ~Registered(iterable[i].vars[j]))
           => (r.err \in {"TermArity", "UnknownVariable"} /\ r.m = Model)
    /\ r.err = "ok" =>
           \A i \in 1..Len(r.m.constraints[r.ret].lhs.variables) :
               ExprVartype(r.m.constraints[r.ret].lhs,
                           r.m.constraints[r.ret].lhs.variables[i])
                   = vartype(Model, r.m.constraints[r.ret].lhs.variables[i])

\* C19: add_constraint_from_iterable fails and changes nothing when a term,
\* at any position, holds an unregistered variable or more than two
\* variables; when it succeeds, each variable of the expression it built has
\* the vartype the registry records.
C19_TermsChecked ==
    \A iterable \in IterableArgs :
        TermsCheckedBy(add_constraint_from_iterable(Model, iterable, "<=", 0,
                                                    "c0", None),
                       iterable)

\* C19 witness: add_constraint_from_iterable has just failed on a term, in a
\* model with a registered variable.
C19_Witness ==
    /\ result.op = "add_constraint_from_iterable"
    /\ result.err \in {"TermArity", "UnknownVariable"}
    /\ Len(variables) = 1

\* add_constraint_from_model or add_constraint_from_comparison, called with
\* the expression qm and copy, ended as r: the constraint it stored holds qm,
\* as the caller's own object exactly when copy is false.
StoredBy(r, qm, copy) ==
    r.err = "ok" =>
        /\ r.m.constraints[r.ret].lhs = qm
        /\ r.ret \in r.m.shared <=> ~copy

\* C20: add_constraint_from_model and add_constraint_from_comparison store a
\* private copy of the expression when copy is true, which no later mutation
\* by the caller changes, and the very expression passed when copy is false.
C20_CopyOrShare ==
    /\ \A l \in DOMAIN constraints \ shared :
           \A v \in DOMAIN constraints[l].lhs.linear :
               constraints[l].lhs.linear[v] >= 0
    /\ \A copy \in BOOLEAN :
           /\ \A qm \in ConstraintExprs :
                  StoredBy(add_constraint_from_model(Model, qm, "<=", 0, "c0",
                                                     copy, None),
                           qm, copy)
           /\ \A comp \in ComparisonArgs :
                  StoredBy(add_constraint_from_comparison(Model, comp, "c0",
                                                          copy, None),
                           comp.lhs, copy)

\* C20 witness: the caller has changed an expression it passed with
\* copy=False, and the model holds another constraint as a private copy.
C20_Witness ==
    /\ result.op = "mutate"
    /\ result.ret \in shared
    /\ DOMAIN constraints \ shared # {}

\* C23: no call of a public method of a model (set_objective, the
\* add_constraint methods, add_discrete, add_variable, num_biases,
\* num_quadratic_variables, to_file) removes a registered label, a constraint
\* label or a discrete label, moves a registered label to another index, or
\* changes the sense or the rhs stored under a constraint label.
C23_NeverRemoved ==
    [][result'.op # "from_file" =>
          /\ Len(variables) <= Len(variables')
          /\ \A i \in 1..Len(variables) : variables'[i] = variables[i]
          /\ DOMAIN constraints \subseteq DOMAIN constraints'
          /\ discrete \subseteq discrete'
          /\ \A l \in DOMAIN constraints :
                 /\ constraints'[l].sense = constraints[l].sense
                 /\ constraints'[l].rhs = constraints[l].rhs
      ]_vars

\* C23 witness: a third call on a model that holds two variables, two
\* constraints and a discrete group.
C23_Witness ==
    /\ calls = 3
    /\ result.op \in BuildOps
    /\ Len(variables) = 2
    /\ Cardinality(DOMAIN constraints) = 2
    /\ discrete # {}

\* add_discrete(vs, label) ended as r: it succeeded and added one constraint,
\* the equality of the sum of the variables with 1, as a discrete group that
\* claims the variables, and registered the new variables as BINARY without
\* bounds.
DiscreteAddedBy(r, vs) ==
    /\ r.err = "ok"
    /\ r.ret \notin DOMAIN constraints
    /\ DOMAIN r.m.constraints = DOMAIN constraints \cup {r.ret}
    /\ \A l \in DOMAIN constraints : r.m.constraints[l] = constraints[l]
    /\ r.m.constraints[r.ret].sense = Eq
    /\ r.m.constraints[r.ret].rhs = 1
    /\ r.m.constraints[r.ret].lhs.quadratic = {}
    /\ DOMAIN r.m.constraints[r.ret].lhs.linear = Range(vs)
    /\ \A v \in Range(vs) : r.m.constraints[r.ret].lhs.linear[v] = 1
    /\ r.m.discrete = discrete \cup {r.ret}
    /\ Range(vs) \subseteq r.m._discrete
    /\ \A v \in Range(vs) :
           ~Registered(v) =>
               /\ count(r.m, v) = 1
               /\ vartype(r.m, v) = BINARY
               /\ v \notin DOMAIN r.m.lower_bounds
               /\ v \notin DOMAIN r.m.upper_bounds

\* add_discrete(vs, label) meets no existing label, no claimed variable and
\* no registered variable of another vartype than BINARY.
DiscreteAllowed(vs, label) ==
    /\ label # None => label \notin DOMAIN constraints
    /\ \A i \in 1..Len(vs) :
           /\ vs[i] \notin _discrete \cup Claimed(Model)
           /\ Registered(vs[i]) => vartype(Model, vs[i]) = BINARY

\* C24: add_discrete with a fresh label, no claimed variable and no
\* registered variable that is not BINARY succeeds and adds exactly one
\* constraint, an equality against 1 with linear bias 1 on each variable and
\* no quadratic term; its label is discrete, its variables are claimed and
\* its new variables are BINARY without bounds.
C24_DiscreteAdded ==
    \A vs \in VarSeqs, label \in LabelArgs : \A hex \in HexFor(label) :
        DiscreteAllowed(vs, label)
            => DiscreteAddedBy(add_discrete(Model, vs, label, hex), vs)

\* Every term of the iterable holds at most two variables, all registered.
TermsRegistered(iterable) ==
    \A i \in 1..Len(iterable) :
        /\ Len(iterable[i].vars) <= 2
        /\ \A j \in 1..Len(iterable[i].vars) : Registered(iterable[i].vars[j])

\* A call that ended as r succeeded and left the registry as it was.
RegistrySameBy(r) ==
    /\ r.err = "ok"
    /\ r.m.variables = variables
    /\ r.m.vartypes = vartypes
    /\ r.m.lower_bounds = lower_bounds
    /\ r.m.upper_bounds = upper_bounds

\* C25: add_constraint_from_iterable with a fresh label and terms of at most
\* two registered variables succeeds and leaves the registry, recorded bounds
\* included, as it was.
C25_IterableKeepsRegistry ==
    \A iterable \in IterableArgs :
        (TermsRegistered(iterable) /\ "c0" \notin DOMAIN constraints)
            => RegistrySameBy(add_constraint_from_iterable(Model, iterable, "<=",
                                                          0, "c0", None))

WithinRange(x, r) == Abs(x.num) <= r * x.den

\* C22: after normalize(bias_range=r) with a positive r and no ignored
\* terms, every linear and every higher-order bias lies in [-r, r].
C22_NormalizedInRange ==
    poly_pc = "normalize" =>
        \A i \in 1..Len(_terms) :
            Cardinality(_terms[i].term) >= 1
                => WithinRange(_terms[i].bias, bias_range)

====
